---- MODULE Spec2Model ----
(***************************************************************************)
(* A model of autoscan's page-processing engine: the top-level autoscan    *)
(* coroutine (autoscan/autoscan.py), the orchestrator                      *)
(* _process_images_async with its inner coroutine process_single_image,    *)
(* and the pure assembler _join_markdown_pages.                            *)
(*                                                                         *)
(* Text is a sequence of tokens; every token is a fixed piece of a Python  *)
(* str ("a", "b", "|", " ", "\n", "---PAGE", " BREAK---").  Python's None is  *)
(* the empty option <<>> and a present value x is <<x>>, so that None and  *)
(* the empty string stay different values.                                 *)
(***************************************************************************)
EXTENDS Integers, Sequences, FiniteSets, TLC

VARIABLES
    \* ---- autoscan(): arguments, locals and observable effects
    pc,                 \* position of the autoscan coroutine
    pdf_path,           \* argument pdf_path, a path written piece by piece
    output_dir,         \* argument output_dir: None or <<a directory path>>
    accuracy,           \* argument accuracy
    polish_output,      \* argument polish_output
    temp_dir,           \* argument temp_dir: TRUE when the caller supplied one
    temp_dir_obj,       \* TRUE when _create_temp_dir made a TemporaryDirectory
    local_path,         \* local local_path: None or <<path of the local PDF>>
    images,             \* local images: None or <<list of image paths>>
    pass_previous_page_context, \* llm_processor.pass_previous_page_context
    renderer_calls,     \* number of pdf_to_images invocations
    markdown_content,   \* local markdown_content
    joined_markdown,    \* history: what _join_markdown_pages returned
    totals,             \* locals total_prompt_tokens, total_completion_tokens, total_cost
    polisher_calls,     \* the markdown_content of every MarkdownConsolidator.acompletion call
    polisher_raised,    \* history: the Polisher call raised
    written,            \* the text of every write_text_to_file call that wrote the file
    written_to,         \* the path of every write_text_to_file call that wrote the file
    output,             \* None or <<AutoScanOutput>>
    error,              \* the exception autoscan raised, "" when none
    images_deleted,     \* _cleanup_temp_files ran over images
    temp_dir_removed,   \* temp_dir_obj.cleanup() ran
    \* ---- _process_images_async(): arguments, locals and observable effects
    opc,                \* position of the orchestrator coroutine
    pdf_page_images,    \* argument pdf_page_images
    concurrency,        \* argument/local concurrency (0 stands for None or 0)
    concurrency_arg,    \* history: concurrency as the caller passed it
    sequential,         \* argument sequential
    context,            \* value of the asyncio.Semaphore named context
    task,               \* per page: position of its process_single_image coroutine
    results,            \* per page: what process_single_image returned or raised
    calls,              \* per page: the llm_processor.acompletion calls made for it
    completion_order,   \* history: page numbers in the order their calls completed
    seq_i,              \* sequential loop: the page number being processed
    last_page_markdown, \* sequential loop: local last_page_markdown
    valid_results,      \* local valid_results
    ret,                \* None or <<the returned 4-tuple>>
    orch_error,         \* the exception _process_images_async raised, "" when none
    \* ---- a call of _join_markdown_pages on its own
    join_input,         \* argument aggregated_markdown
    join_output,        \* None or <<the returned text>>
    join_again,         \* None or <<what a second call with the same argument returned>>
    rejoin_output,      \* None or <<what a call with [the returned text] returned>>
    \* ---- a call of ImageToMarkdownProcessor.acompletion on its own
    proc_self,          \* the processor: pass_previous_page_context, user_prompt
    proc_kwargs,        \* the keyword arguments: image_path, previous_page_markdown
    proc_messages,      \* None or <<the messages handed to _allm_call>>
    proc_result,        \* None or <<what the call returned or raised>>
    \* ---- a call of MarkdownConsolidator.acompletion on its own
    cons_self,          \* the consolidator: user_prompt
    cons_kwargs,        \* the keyword arguments: markdown_content
    cons_llm_ok,        \* whether the model call behind _allm_call succeeds
    cons_messages,      \* None or <<the messages handed to _allm_call>>
    cons_result,        \* None or <<what the call returned or raised>>
    \* ---- a call of get_or_download_file on its own
    gdf_args,           \* the arguments: file_path, destination_dir
    gdf_env,            \* the file system and the server the call meets
    gdf_result          \* None or <<what the call returned or raised>>

path_args == <<pdf_path, output_dir>>

autoscan_vars == <<pc, path_args, written_to, accuracy, polish_output, temp_dir, temp_dir_obj, local_path, images,
                   pass_previous_page_context,
                   renderer_calls, markdown_content, joined_markdown, totals,
                   polisher_calls, polisher_raised, written, output, error,
                   images_deleted, temp_dir_removed>>

orch_vars == <<opc, pdf_page_images, concurrency, concurrency_arg, sequential, context, task,
               results,
               calls, completion_order, seq_i, last_page_markdown, valid_results, ret,
               orch_error>>

join_vars == <<join_input, join_output, join_again, rejoin_output>>

proc_vars == <<proc_self, proc_kwargs, proc_messages, proc_result>>

cons_vars == <<cons_self, cons_kwargs, cons_llm_ok, cons_messages, cons_result>>

gdf_vars == <<gdf_args, gdf_env, gdf_result>>

direct_vars == <<proc_vars, cons_vars, gdf_vars>>

vars == <<autoscan_vars, orch_vars, join_vars, direct_vars>>

(***************************************************************************)
(* Bounds of the model.                                                    *)
(***************************************************************************)
\* pages of a direct call of _process_images_async
MaxPages == 3

\* pages the renderer yields in a run of autoscan
MaxRendered == 2

(***************************************************************************)
(* Python values.                                                          *)
(***************************************************************************)
None == <<>>

Some(x) == <<x>>

\* str.isspace() for the tokens of the model
IsSpace(c) == c \in {" ", "\n"}

RECURSIVE rstrip(_)
rstrip(s) ==
    IF s = <<>> THEN s
    ELSE IF IsSpace(s[Len(s)]) THEN rstrip(SubSeq(s, 1, Len(s) - 1))
    ELSE s

RECURSIVE lstrip(_)
lstrip(s) ==
    IF s = <<>> THEN s
    ELSE IF IsSpace(s[1]) THEN lstrip(Tail(s))
    ELSE s

strip(s) == rstrip(lstrip(s))

\* str.replace(old, ""): leftmost non-overlapping occurrences, one pass
RECURSIVE replace_with_empty(_, _)
replace_with_empty(s, old) ==
    IF Len(s) < Len(old) THEN s
    ELSE IF SubSeq(s, 1, Len(old)) = old
         THEN replace_with_empty(SubSeq(s, Len(old) + 1, Len(s)), old)
         ELSE <<s[1]>> \o replace_with_empty(Tail(s), old)

startswith(s, c) == Len(s) >= 1 /\ s[1] = c

endswith(s, c) == Len(s) >= 1 /\ s[Len(s)] = c

\* line 368 without its filter
SelectPages_keep_all(ps) == ps

RECURSIVE SelectPages(_)
\* [page for page in cleaned_pages if page.rstrip()]
SelectPages(ps) ==
    IF ps = <<>> THEN <<>>
    ELSE IF rstrip(Head(ps)) # <<>> THEN <<Head(ps)>> \o SelectPages(Tail(ps))
    ELSE SelectPages(Tail(ps))

\* the marker "---PAGE BREAK---"
PAGE_BREAK == <<"---PAGE", " BREAK---">>

\* line 367 with strip() in place of rstrip()
cleaned_pages_strip(aggregated_markdown) ==
    [k \in 1..Len(aggregated_markdown) |->
        strip(replace_with_empty(aggregated_markdown[k], PAGE_BREAK))]

cleaned_pages(aggregated_markdown) ==
    [k \in 1..Len(aggregated_markdown) |->
        rstrip(replace_with_empty(aggregated_markdown[k], PAGE_BREAK))]

\* line 380 with "or" in place of "and"
separator_either(prev_page, current_page) ==
    IF endswith(prev_page, "|") \/ startswith(current_page, "|")
    THEN <<"\n">> ELSE <<"\n", "\n">>

\* line 380 without the table continuation
separator_always_double(prev_page, current_page) == <<"\n", "\n">>

separator(prev_page, current_page) ==
    IF endswith(prev_page, "|") /\ startswith(current_page, "|")
    THEN <<"\n">> ELSE <<"\n", "\n">>

RECURSIVE join_parts_separator_first(_, _)
\* lines 374-381 with result_parts starting empty and the loop starting at page 0
join_parts_separator_first(valid_pages, k) ==
    IF k = 0 THEN <<>>
    ELSE join_parts_separator_first(valid_pages, k - 1)
         \o <<"\n", "\n">> \o valid_pages[k]

RECURSIVE join_parts(_, _)
\* "".join(result_parts) over valid_pages[1..k]
join_parts(valid_pages, k) ==
    IF k = 1 THEN valid_pages[1]
    ELSE join_parts(valid_pages, k - 1)
         \o separator(valid_pages[k - 1], valid_pages[k]) \o valid_pages[k]

_join_markdown_pages(aggregated_markdown) ==
    IF aggregated_markdown = <<>> THEN <<>>
    ELSE LET valid_pages == SelectPages(cleaned_pages(aggregated_markdown))
         IN  IF valid_pages = <<>> THEN <<>>
             ELSE join_parts(valid_pages, Len(valid_pages))

(***************************************************************************)
(* The Page Transcriber, llm_processor.acompletion, is an external call.   *)
(* Its outcome for a page is fixed by the page image: two images are       *)
(* transcribed to table fragments, one to an empty string, one makes the   *)
(* model call raise and one cannot be encoded.                             *)
(***************************************************************************)
Images == {"/p/a.png", "/p/b.png", "/p/blank.png", "/p/bad.png", "/p/unreadable.png"}

ModelResult(content, prompt_tokens, completion_tokens, cost) ==
    [type |-> "ModelResult", content |-> content, prompt_tokens |-> prompt_tokens,
     completion_tokens |-> completion_tokens, cost |-> cost]

\* an exception object: its type, the pieces of its message, the type of its __cause__
Exception(type, message, cause) ==
    [type |-> type, message |-> message, cause |-> cause]

IsException(r) == r.type # "ModelResult"

\* ImageToMarkdownProcessor.acompletion(image_path=..., ...)
acompletion(image_path) ==
    CASE image_path = "/p/a.png"     -> ModelResult(<<"a", "|">>, 3, 1, 2)
      [] image_path = "/p/b.png"     -> ModelResult(<<"|", "b", " ">>, 5, 2, 3)
      [] image_path = "/p/blank.png" -> ModelResult(<<>>, 1, 1, 1)
      [] image_path = "/p/unreadable.png" ->
            Exception("ValueError",
                      <<"Failed to encode image at ", image_path, " to base64">>, "Exception")
      [] OTHER -> Exception("LLMProcessingError",
                            <<"Image-to-Markdown LLM call failed: ", "timeout">>, "Exception")

\* all lists of at most n page images
PageLists(n) == UNION {[1..k -> Images] : k \in 0..n}

(***************************************************************************)
(* _process_images_async                                                   *)
(***************************************************************************)
NumPages == Len(pdf_page_images)

PageNums == 1..NumPages

InFlight == {i \in PageNums : task[i] = "running"}

Finished(i) == task[i] \in {"returned", "raised"}

\* asyncio.Semaphore.locked(): no slot is free, "async with context" has to wait
semaphore_locked_never == FALSE

semaphore_locked == context = 0

\* the parameter default previous_page_markdown = None of process_single_image,
\* which the concurrent branch leaves alone
default_previous_page_markdown_leak == Some(<<"a", "|">>)

default_previous_page_markdown == None

\* process_single_image without its except clause
wrap_exception_never(image_path, e) == e

\* the except clause of process_single_image
wrap_exception(image_path, e) ==
    Exception("LLMProcessingError",
              <<"Error processing image '", image_path, "': ">> \o e.message, e.type)

\* process_single_image up to the suspension in llm_processor.acompletion
EnterSingleImage(i, previous_page_markdown) ==
    /\ task[i] = "pending"
    /\ ~semaphore_locked
    /\ context' = context - 1
    /\ task' = [task EXCEPT ![i] = "running"]
    /\ calls' = [calls EXCEPT ![i] = Append(@,
                    [image_path |-> pdf_page_images[i], page_number |-> i,
                     previous_page_markdown |-> previous_page_markdown])]

\* what process_single_image returns or raises once acompletion has completed
single_image_outcome(i) ==
    LET r == acompletion(pdf_page_images[i])
    IN  IF IsException(r) THEN wrap_exception(pdf_page_images[i], r) ELSE r

\* a coroutine of process_single_image that starts over after a failed call
task_after_with_retry(outcome) == IF IsException(outcome) THEN "pending" ELSE "returned"

\* lines 249 and 253: the coroutine of process_single_image returns or raises, once
task_after(outcome) == IF IsException(outcome) THEN "raised" ELSE "returned"

\* "async with context" that gives the slot back only when the body returns
release_unless_raised(value, outcome) ==
    IF IsException(outcome) THEN value ELSE value + 1

\* the exit of "async with context": the slot is given back on return and on raise
release(value, outcome) == value + 1

\* every task keeping its outcome in the place of the first task
result_slot_shared(i) == 1

\* lines 278-280: the outcome of the coroutine of page i is kept by its own task,
\* which gather reads at position i
result_slot(i) == i

\* process_single_image from the completion of acompletion to the release of context
ExitSingleImage(i) ==
    /\ task[i] = "running"
    /\ results' = [results EXCEPT ![result_slot(i)] = single_image_outcome(i)]
    /\ task' = [task EXCEPT ![i] = task_after(single_image_outcome(i))]
    /\ context' = release(context, single_image_outcome(i))
    /\ completion_order' = Append(completion_order, i)

RECURSIVE sum_from_one(_, _)
\* the built-in sum with start value 1
sum_from_one(rs, field) ==
    IF rs = <<>> THEN 1 ELSE rs[1][field] + sum_from_one(Tail(rs), field)

RECURSIVE sum(_, _)
sum(rs, field) ==
    IF rs = <<>> THEN 0 ELSE rs[1][field] + sum(Tail(rs), field)

sum_dropping_first(rs, field) ==
    IF rs = <<>> THEN 0 ELSE sum(Tail(rs), field)

\* lines 291-302: the returned 4-tuple
return_value_first_only(vr) ==
    [aggregated_markdown |-> [k \in 1..Len(vr) |-> vr[k].content],
     total_prompt_tokens |-> sum_dropping_first(vr, "prompt_tokens"),
     total_completion_tokens |-> sum(vr, "completion_tokens"),
     total_cost |-> sum(vr, "cost")]

return_value(vr) ==
    [aggregated_markdown |-> [k \in 1..Len(vr) |-> vr[k].content],
     total_prompt_tokens |-> sum(vr, "prompt_tokens"),
     total_completion_tokens |-> sum(vr, "completion_tokens"),
     total_cost |-> sum(vr, "cost")]

\* lines 229-230: "if not concurrency: concurrency = len(pdf_page_images)"
coerce_concurrency_to_one(c, n) == IF c = 0 THEN 1 ELSE c

coerce_concurrency(c, n) == IF c = 0 THEN n ELSE c

\* lines 229-232 and the set-up of either branch
ProcessImagesEntry ==
    /\ opc = "called"
    /\ concurrency' = coerce_concurrency(concurrency, NumPages)
    /\ context' = concurrency'
    /\ task' = [i \in PageNums |-> "pending"]
    /\ results' = [i \in PageNums |-> None]
    /\ calls' = [i \in PageNums |-> <<>>]
    /\ completion_order' = <<>>
    /\ seq_i' = 1
    /\ last_page_markdown' = None
    /\ valid_results' = <<>>
    /\ opc' = "running"
    /\ UNCHANGED <<direct_vars, join_vars, concurrency_arg, pdf_page_images, sequential, ret, orch_error, autoscan_vars>>

\* ---- sequential branch, lines 257-271
SeqCallPage(i) ==
    /\ opc = "running" /\ sequential
    /\ i \in PageNums
    /\ EnterSingleImage(i, last_page_markdown)
    /\ UNCHANGED <<direct_vars, join_vars, concurrency_arg, opc, pdf_page_images, concurrency, sequential, results,
                   completion_order, seq_i, last_page_markdown, valid_results, ret,
                   orch_error, autoscan_vars>>

SeqCallAnyPage == \E i \in PageNums : SeqCallPage(i)

SeqCall == SeqCallPage(seq_i)

\* line 270
new_last_page_markdown_none(result) == None

new_last_page_markdown(result) == Some(result.content)

\* lines 268-269: "if result" holds of every ModelResult, a dataclass instance
append_valid_result_front(vr, result) == <<result>> \o vr

append_valid_result(vr, result) == Append(vr, result)

\* the loop body of lines 259-270 with a failed page skipped instead of raised
SeqReturnSkipFailed ==
    /\ opc = "running" /\ sequential
    /\ seq_i \in PageNums
    /\ ExitSingleImage(seq_i)
    /\ LET r == single_image_outcome(seq_i)
       IN  IF IsException(r)
           THEN /\ seq_i' = seq_i + 1
                /\ UNCHANGED <<valid_results, last_page_markdown, opc, orch_error>>
           ELSE /\ valid_results' = append_valid_result(valid_results, r)
                /\ last_page_markdown' = new_last_page_markdown(r)
                /\ seq_i' = seq_i + 1
                /\ UNCHANGED <<opc, orch_error>>
    /\ UNCHANGED <<direct_vars, join_vars, concurrency_arg, pdf_page_images, concurrency, sequential, calls, ret, autoscan_vars>>

SeqReturn ==
    /\ opc = "running" /\ sequential
    /\ seq_i \in PageNums
    /\ ExitSingleImage(seq_i)
    /\ LET r == single_image_outcome(seq_i)
       IN  IF IsException(r)
           THEN /\ opc' = "raised"
                /\ orch_error' = r
                /\ UNCHANGED <<valid_results, last_page_markdown, seq_i>>
           ELSE /\ valid_results' = append_valid_result(valid_results, r)
                /\ last_page_markdown' = new_last_page_markdown(r)
                /\ seq_i' = seq_i + 1
                /\ UNCHANGED <<opc, orch_error>>
    /\ UNCHANGED <<direct_vars, join_vars, concurrency_arg, pdf_page_images, concurrency, sequential, calls, ret, autoscan_vars>>

SeqFinish ==
    /\ opc = "running" /\ sequential
    /\ seq_i = NumPages + 1
    /\ ret' = Some(return_value(valid_results))
    /\ opc' = "returned"
    /\ UNCHANGED <<direct_vars, join_vars, concurrency_arg, pdf_page_images, concurrency, sequential, context, task, results,
                   calls, completion_order, seq_i, last_page_markdown, valid_results,
                   orch_error, autoscan_vars>>

\* ---- concurrent branch, lines 272-289
ConcCall(i) ==
    /\ opc = "running" /\ ~sequential
    /\ EnterSingleImage(i, default_previous_page_markdown)
    /\ UNCHANGED <<direct_vars, join_vars, concurrency_arg, opc, pdf_page_images, concurrency, sequential, results,
                   completion_order, seq_i, last_page_markdown, valid_results, ret,
                   orch_error, autoscan_vars>>

ConcComplete(i) ==
    /\ opc = "running" /\ ~sequential
    /\ ExitSingleImage(i)
    /\ UNCHANGED <<direct_vars, join_vars, concurrency_arg, opc, pdf_page_images, concurrency, sequential, calls, seq_i,
                   last_page_markdown, valid_results, ret, orch_error, autoscan_vars>>

\* asyncio.gather(*tasks, return_exceptions=True): one entry per task, in task order
gather_in_completion_order == [k \in PageNums |-> results[completion_order[k]]]

gather == [k \in PageNums |-> results[k]]

RECURSIVE keep_valid(_)
\* lines 282-287: exceptions are logged and left out
keep_valid(rs) ==
    IF rs = <<>> THEN <<>>
    ELSE IF IsException(Head(rs)) THEN keep_valid(Tail(rs))
    ELSE append_valid_result(<<>>, Head(rs)) \o keep_valid(Tail(rs))

ConcFinish ==
    /\ opc = "running" /\ ~sequential
    /\ \A i \in PageNums : Finished(i)
    /\ valid_results' = keep_valid(gather)
    /\ ret' = Some(return_value(valid_results'))
    /\ opc' = "returned"
    /\ UNCHANGED <<direct_vars, join_vars, concurrency_arg, pdf_page_images, concurrency, sequential, context, task, results,
                   calls, completion_order, seq_i, last_page_markdown, orch_error,
                   autoscan_vars>>

NextOrch ==
    \/ ProcessImagesEntry
    \/ SeqCall
    \/ SeqReturn
    \/ SeqFinish
    \/ \E i \in PageNums : ConcCall(i)
    \/ \E i \in PageNums : ConcComplete(i)
    \/ ConcFinish

\* the idle values of the orchestrator's locals before ProcessImagesEntry
OrchIdle ==
    /\ context = 0
    /\ task = <<>>
    /\ results = <<>>
    /\ calls = <<>>
    /\ completion_order = <<>>
    /\ seq_i = 0
    /\ last_page_markdown = None
    /\ valid_results = <<>>
    /\ ret = None
    /\ orch_error = Exception("", <<>>, "")

\* the values of autoscan's state when autoscan is not running
AutoscanIdle ==
    /\ temp_dir_obj = FALSE
    /\ local_path = None
    /\ images = None
    /\ pass_previous_page_context = FALSE
    /\ renderer_calls = 0
    /\ markdown_content = <<>>
    /\ joined_markdown = None
    /\ totals = [prompt_tokens |-> 0, completion_tokens |-> 0, cost |-> 0]
    /\ polisher_calls = <<>>
    /\ polisher_raised = FALSE
    /\ written = <<>>
    /\ written_to = <<>>
    /\ output = None
    /\ error = ""
    /\ images_deleted = FALSE
    /\ temp_dir_removed = FALSE

\* no call of _join_markdown_pages on its own
JoinIdle ==
    /\ join_input = <<>>
    /\ join_output = None
    /\ join_again = None
    /\ rejoin_output = None

\* no call of a processor or of get_or_download_file on its own
DirectIdle ==
    /\ proc_self = None /\ proc_kwargs = None
    /\ proc_messages = None /\ proc_result = None
    /\ cons_self = None /\ cons_kwargs = None /\ cons_llm_ok = FALSE
    /\ cons_messages = None /\ cons_result = None
    /\ gdf_args = None /\ gdf_env = None /\ gdf_result = None

\* a direct call _process_images_async(llm_processor, pdf_page_images, concurrency, sequential)
InitOrch ==
    /\ pc = "direct"
    /\ pdf_path = <<>> /\ output_dir = None
    /\ accuracy = "low" /\ polish_output = FALSE /\ temp_dir = FALSE
    /\ AutoscanIdle
    /\ opc = "called"
    /\ pdf_page_images \in PageLists(MaxPages)
    /\ concurrency \in 0..MaxPages
    /\ concurrency_arg = concurrency
    /\ sequential \in BOOLEAN
    /\ OrchIdle
    /\ JoinIdle
    /\ DirectIdle

SpecOrch == InitOrch /\ [][NextOrch]_vars

\* the event loop runs every coroutine that is ready, and every acompletion call
\* comes back, by return or by raise
FairOrch ==
    /\ WF_vars(ProcessImagesEntry)
    /\ WF_vars(SeqCall)
    /\ WF_vars(SeqReturn)
    /\ WF_vars(SeqFinish)
    /\ WF_vars(\E i \in PageNums : ConcCall(i))
    /\ WF_vars(\E i \in PageNums : ConcComplete(i))
    /\ WF_vars(ConcFinish)

\* the page lists of the termination runs hold at most MaxLivePages pages
MaxLivePages == 2

InitOrchLive ==
    /\ pc = "direct"
    /\ pdf_path = <<>> /\ output_dir = None
    /\ accuracy = "low" /\ polish_output = FALSE /\ temp_dir = FALSE
    /\ AutoscanIdle
    /\ opc = "called"
    /\ pdf_page_images \in PageLists(MaxLivePages)
    /\ concurrency \in 0..MaxLivePages
    /\ concurrency_arg = concurrency
    /\ sequential \in BOOLEAN
    /\ OrchIdle
    /\ JoinIdle
    /\ DirectIdle

SpecOrchLive == InitOrchLive /\ [][NextOrch]_vars /\ FairOrch

(***************************************************************************)
(* autoscan                                                                *)
(***************************************************************************)
\* MarkdownConsolidator.acompletion without the blank check of lines 54-56
consolidator_acompletion_blank_to_model(content, llm_ok) ==
    IF llm_ok THEN ModelResult(<<"# ">> \o content, 7, 4, 5)
    ELSE Exception("LLMProcessingError",
                   <<"Image-to-Markdown LLM call failed: ", "timeout">>, "Exception")

\* MarkdownConsolidator.acompletion(markdown_content=...); llm_ok is the outcome of
\* the model call behind it
consolidator_acompletion(content, llm_ok) ==
    IF strip(content) = <<>> THEN ModelResult(<<>>, 0, 0, 0)
    ELSE IF llm_ok THEN ModelResult(<<"# ">> \o content, 7, 4, 5)
    ELSE Exception("LLMProcessingError",
                   <<"Image-to-Markdown LLM call failed: ", "timeout">>, "Exception")

\* write_text_to_file(filename, output_dir, text): None, the path written, or a raise
\* when the file system refuses the write
write_text_to_file(filename, dir, fs_ok) ==
    IF filename = <<>> \/ dir = <<>> THEN [kind |-> "None", path |-> <<>>]
    ELSE IF fs_ok THEN [kind |-> "path", path |-> dir \o <<"/">> \o filename]
    ELSE [kind |-> "raise", path |-> <<>>]

Fail(kind) ==
    /\ error' = kind
    /\ pc' = "finally"

\* line 59, _create_temp_dir(temp_dir)
CreateTempDir ==
    /\ pc = "start"
    /\ temp_dir_obj' = ~temp_dir
    /\ pc' = "resolve"
    /\ UNCHANGED <<direct_vars, join_vars, path_args, written_to, local_path, pass_previous_page_context, accuracy, polish_output, temp_dir, images, renderer_calls,
                   markdown_content, joined_markdown, totals, polisher_calls,
                   polisher_raised, written, output, error, images_deleted,
                   temp_dir_removed, orch_vars>>

\* get_or_download_file(pdf_path, temp_directory): a local path, or None
LocalPaths == {None, Some("/p/doc.pdf")}

\* lines 61-64 without the check of line 63
GetOrDownloadFileUnchecked ==
    /\ pc = "resolve"
    /\ \E found \in LocalPaths :
          /\ local_path' = found
          /\ pc' = "render"
          /\ UNCHANGED error
    /\ UNCHANGED <<direct_vars, join_vars, path_args, written_to, pass_previous_page_context, accuracy, polish_output, temp_dir, temp_dir_obj, images,
                   renderer_calls, markdown_content, joined_markdown, totals,
                   polisher_calls, polisher_raised, written, output, images_deleted,
                   temp_dir_removed, orch_vars>>

\* lines 61-64
GetOrDownloadFile ==
    /\ pc = "resolve"
    /\ \E found \in LocalPaths :
          /\ local_path' = found
          /\ IF found # None THEN pc' = "render" /\ UNCHANGED error
             ELSE Fail("PDFFileNotFoundError")
    /\ UNCHANGED <<direct_vars, join_vars, path_args, written_to, pass_previous_page_context, accuracy, polish_output, temp_dir, temp_dir_obj, images,
                   renderer_calls, markdown_content, joined_markdown, totals,
                   polisher_calls, polisher_raised, written, output, images_deleted,
                   temp_dir_removed, orch_vars>>

\* line 78 as "if images is None"
no_images_none_only(rendered) == rendered = None

\* line 78: "if not images"
no_images(rendered) == rendered = None \/ rendered = Some(<<>>)

\* lines 75-79, pdf_to_images returns None or a list of image paths
PdfToImages ==
    /\ pc = "render"
    /\ renderer_calls' = renderer_calls + 1
    /\ \E rendered \in {None} \cup {Some(l) : l \in PageLists(MaxRendered)} :
          /\ images' = rendered
          /\ IF no_images(rendered)
             THEN Fail("PDFPageToImageConversionError")
             ELSE pc' = "check" /\ UNCHANGED error
    /\ UNCHANGED <<direct_vars, join_vars, path_args, written_to, local_path, pass_previous_page_context, accuracy, polish_output, temp_dir, temp_dir_obj, markdown_content,
                   joined_markdown, totals, polisher_calls, polisher_raised, written,
                   output, images_deleted, temp_dir_removed, orch_vars>>

\* line 96
sequential_for_flipped(acc) == acc = "low"

sequential_for(acc) == acc = "high"

\* lines 84-112: the accuracy check, then the call of _process_images_async
CheckAccuracy ==
    /\ pc = "check"
    /\ IF accuracy \notin {"low", "high"}
       THEN /\ Fail("ValueError")
            /\ UNCHANGED <<orch_vars, pass_previous_page_context>>
       ELSE /\ pc' = "processing"
            /\ pdf_page_images' = images[1]
            /\ pass_previous_page_context' = (accuracy = "high")
            /\ sequential' = sequential_for(accuracy)
            /\ opc' = "called"
            /\ UNCHANGED <<error, concurrency, concurrency_arg, context, task, results, calls,
                           completion_order, seq_i, last_page_markdown, valid_results,
                           ret, orch_error>>
    /\ UNCHANGED <<direct_vars, join_vars, path_args, written_to, local_path, accuracy, polish_output, temp_dir, temp_dir_obj, images,
                   renderer_calls, markdown_content, joined_markdown, totals,
                   polisher_calls, polisher_raised, written, output, images_deleted,
                   temp_dir_removed>>

\* lines 102-112: the await of _process_images_async completes
AwaitProcessImages ==
    /\ pc = "processing"
    /\ opc \in {"returned", "raised"}
    /\ IF opc = "raised"
       THEN /\ Fail(orch_error.type)
            /\ UNCHANGED totals
       ELSE /\ totals' = [prompt_tokens |-> ret[1].total_prompt_tokens,
                          completion_tokens |-> ret[1].total_completion_tokens,
                          cost |-> ret[1].total_cost]
            /\ pc' = "join"
            /\ UNCHANGED error
    /\ UNCHANGED <<direct_vars, join_vars, path_args, written_to, local_path, pass_previous_page_context, accuracy, polish_output, temp_dir, temp_dir_obj, images,
                   renderer_calls, markdown_content, joined_markdown, polisher_calls,
                   polisher_raised, written, output, images_deleted, temp_dir_removed,
                   orch_vars>>

\* the write of lines 158-159 placed right after the join
step_after_join_is_write == "write"

\* line 120 follows line 118: the polish step comes between the join and the write
step_after_join == "polish"

\* line 118
JoinPages ==
    /\ pc = "join"
    /\ markdown_content' = _join_markdown_pages(ret[1].aggregated_markdown)
    /\ joined_markdown' = Some(markdown_content')
    /\ pc' = step_after_join
    /\ UNCHANGED <<direct_vars, join_vars, path_args, written_to, local_path, pass_previous_page_context, accuracy, polish_output, temp_dir, temp_dir_obj, images,
                   renderer_calls, totals, polisher_calls, polisher_raised, written,
                   output, error, images_deleted, temp_dir_removed, orch_vars>>

\* lines 149-151: the except clause of the polish step
on_polish_failure_discard(content) == <<>>

on_polish_failure(content) == content

\* lines 138-140
add_usage_none(t, post_result) == t

add_usage(t, post_result) ==
    [prompt_tokens |-> t.prompt_tokens + post_result.prompt_tokens,
     completion_tokens |-> t.completion_tokens + post_result.completion_tokens,
     cost |-> t.cost + post_result.cost]

\* the except clause of the polish step charging the tokens of the failed call
totals_on_polish_failure_charged(t) ==
    [t EXCEPT !.prompt_tokens = @ + 7, !.cost = @ + 5]

\* lines 149-151: the except clause leaves the three totals alone
totals_on_polish_failure(t) == t

\* line 121 as "if polish_output"
should_polish_blank_too == polish_output

\* line 121: "if polish_output and markdown_content.strip()"
should_polish == polish_output /\ strip(markdown_content) # <<>>

\* lines 120-153
Polish ==
    /\ pc = "polish"
    /\ IF should_polish
       THEN \E llm_ok \in BOOLEAN :
              LET post_result == consolidator_acompletion(markdown_content, llm_ok)
              IN  /\ polisher_calls' = Append(polisher_calls, markdown_content)
                  /\ IF IsException(post_result)
                     THEN /\ markdown_content' = on_polish_failure(markdown_content)
                          /\ polisher_raised' = TRUE
                          /\ totals' = totals_on_polish_failure(totals)
                     ELSE /\ markdown_content' = post_result.content
                          /\ totals' = add_usage(totals, post_result)
                          /\ UNCHANGED polisher_raised
       ELSE UNCHANGED <<markdown_content, totals, polisher_calls, polisher_raised>>
    /\ pc' = "write"
    /\ UNCHANGED <<direct_vars, join_vars, path_args, written_to, local_path, pass_previous_page_context, accuracy, polish_output, temp_dir, temp_dir_obj, images,
                   renderer_calls, joined_markdown, written, output, error,
                   images_deleted, temp_dir_removed, orch_vars>>

\* the paths autoscan is called with
PdfPaths == {<<"/p", "/", "doc", ".pdf">>, <<"scan">>}

OutputDirs == {None, Some(<<"/out">>)}

RECURSIVE basename(_)
\* os.path.basename: what follows the last "/"
basename(path) ==
    IF path = <<>> \/ path[Len(path)] = "/" THEN <<>>
    ELSE Append(basename(SubSeq(path, 1, Len(path) - 1)), path[Len(path)])

IsExtension(piece) == piece \in {".pdf", ".md"}

\* os.path.splitext(name)[0]: name without its last extension; a leading dot is no extension
splitext_root(name) ==
    IF Len(name) > 1 /\ IsExtension(name[Len(name)])
    THEN SubSeq(name, 1, Len(name) - 1) ELSE name

\* lines 67-68: os.path.join(os.getcwd(), "output") when no output_dir is given
effective_output_dir(dir) ==
    IF dir = None \/ dir = Some(<<>>) THEN <<"<cwd>", "/", "output">> ELSE dir[1]

\* line 158 and the f-string of line 159 with basename alone, "doc.pdf.md"
output_file_name_with_extension(path) == basename(path) \o <<".md">>

\* line 158 and the f-string of line 159
output_file_name(path) == splitext_root(basename(path)) \o <<".md">>

\* lines 158-162
WriteOutput ==
    /\ pc = "write"
    /\ \E fs_ok \in BOOLEAN :
          LET output_filename == write_text_to_file(output_file_name(pdf_path),
                                                    effective_output_dir(output_dir), fs_ok)
          IN  CASE output_filename.kind = "path" ->
                      /\ written' = Append(written, markdown_content)
                      /\ written_to' = Append(written_to, output_filename.path)
                      /\ pc' = "return"
                      /\ UNCHANGED error
                [] output_filename.kind = "None" ->
                      /\ Fail("MarkdownFileWriteError")
                      /\ UNCHANGED <<written, written_to>>
                [] OTHER ->
                      /\ Fail("OSError")
                      /\ UNCHANGED <<written, written_to>>
    /\ UNCHANGED <<direct_vars, join_vars, path_args, local_path, pass_previous_page_context, accuracy, polish_output, temp_dir, temp_dir_obj, images,
                   renderer_calls, markdown_content, joined_markdown, totals,
                   polisher_calls, polisher_raised, output, images_deleted,
                   temp_dir_removed, orch_vars>>

\* lines 164-202
Return ==
    /\ pc = "return"
    /\ output' = Some([markdown_file |-> written_to[Len(written_to)],
                       markdown |-> markdown_content,
                       input_tokens |-> totals.prompt_tokens,
                       output_tokens |-> totals.completion_tokens,
                       cost |-> totals.cost,
                       accuracy |-> accuracy])
    /\ pc' = "finally"
    /\ UNCHANGED <<direct_vars, join_vars, path_args, written_to, local_path, pass_previous_page_context, accuracy, polish_output, temp_dir, temp_dir_obj, images,
                   renderer_calls, markdown_content, joined_markdown, totals,
                   polisher_calls, polisher_raised, written, error, images_deleted,
                   temp_dir_removed, orch_vars>>

\* line 206 as "if images"
cleanup_images_any_owner == images # None /\ images # Some(<<>>)

\* line 206: "if temp_dir_obj and images"
cleanup_images == temp_dir_obj /\ images # None /\ images # Some(<<>>)

\* lines 203-213
Finally ==
    /\ pc = "finally"
    /\ images_deleted' = cleanup_images
    /\ temp_dir_removed' = temp_dir_obj
    /\ pc' = IF error = "" THEN "done" ELSE "failed"
    /\ UNCHANGED <<direct_vars, join_vars, path_args, written_to, local_path, pass_previous_page_context, accuracy, polish_output, temp_dir, temp_dir_obj, images,
                   renderer_calls, markdown_content, joined_markdown, totals,
                   polisher_calls, polisher_raised, written, output, error, orch_vars>>

Next ==
    \/ CreateTempDir
    \/ GetOrDownloadFile
    \/ PdfToImages
    \/ CheckAccuracy
    \/ AwaitProcessImages
    \/ JoinPages
    \/ Polish
    \/ WriteOutput
    \/ Return
    \/ Finally
    \/ NextOrch

\* a call autoscan(pdf_path, accuracy=..., temp_dir=..., concurrency=..., polish_output=...)
Init ==
    /\ pc = "start"
    /\ pdf_path \in PdfPaths
    /\ output_dir \in OutputDirs
    /\ accuracy \in {"low", "high", "medium"}
    /\ polish_output \in BOOLEAN
    /\ temp_dir \in BOOLEAN
    /\ AutoscanIdle
    /\ opc = "idle"
    /\ pdf_page_images = <<>>
    /\ concurrency \in 0..MaxRendered
    /\ concurrency_arg = concurrency
    /\ sequential = FALSE
    /\ OrchIdle
    /\ JoinIdle
    /\ DirectIdle

Spec == Init /\ [][Next]_vars

(***************************************************************************)
(* _join_markdown_pages called on its own.  The page list is written flat, *)
(* every page followed by the mark PageEnd; its size is the length of that *)
(* flat list.  Pages hold no "\n", so that every "\n" of the returned text *)
(* comes from a separator.                                                 *)
(***************************************************************************)
\* size of a page list: its tokens plus one for every page
MaxJoinSize == 6

JoinTokens == {"a", "|", " ", "---PAGE", " BREAK---"}

PageEnd == "<end of page>"

RECURSIVE Unflatten(_, _)
\* the pages of a flat list, page being the tokens read since the last PageEnd
Unflatten(flat, page) ==
    IF flat = <<>> THEN <<>>
    ELSE IF Head(flat) = PageEnd THEN <<page>> \o Unflatten(Tail(flat), <<>>)
    ELSE Unflatten(Tail(flat), Append(page, Head(flat)))

\* ps is a page list of size at most n
IsJoinInput(ps, n) ==
    \/ ps = <<>>
    \/ \E w \in 1..n : \E f \in [1..(w - 1) -> JoinTokens \cup {PageEnd}] :
          ps = Unflatten(Append(f, PageEnd), <<>>)

\* a call _join_markdown_pages(aggregated_markdown)
InitJoin ==
    /\ pc = "direct"
    /\ pdf_path = <<>> /\ output_dir = None
    /\ accuracy = "low" /\ polish_output = FALSE /\ temp_dir = FALSE
    /\ AutoscanIdle
    /\ opc = "idle"
    /\ pdf_page_images = <<>>
    /\ concurrency = 0 /\ concurrency_arg = 0
    /\ sequential = FALSE
    /\ OrchIdle
    /\ DirectIdle
    /\ IsJoinInput(join_input, MaxJoinSize)
    /\ join_output = None
    /\ join_again = None
    /\ rejoin_output = None

\* lines 353-383 with the cleaned pages stored back into the argument
JoinCallCleaningInPlace ==
    /\ join_output = None
    /\ join_output' = Some(_join_markdown_pages(join_input))
    /\ join_input' = cleaned_pages(join_input)
    /\ UNCHANGED <<join_again, rejoin_output, autoscan_vars, orch_vars, direct_vars>>

\* lines 353-383
JoinCall ==
    /\ join_output = None
    /\ join_output' = Some(_join_markdown_pages(join_input))
    /\ UNCHANGED <<join_input, join_again, rejoin_output, autoscan_vars, orch_vars, direct_vars>>

\* lines 353-383, a second call with the same list
JoinCallAgain ==
    /\ join_output # None /\ join_again = None
    /\ join_again' = Some(_join_markdown_pages(join_input))
    /\ UNCHANGED <<join_input, join_output, rejoin_output, autoscan_vars, orch_vars, direct_vars>>

\* lines 353-383, a call with the one-page list [the text the first call returned]
JoinCallOnOwnOutput ==
    /\ join_output # None /\ rejoin_output = None
    /\ rejoin_output' = Some(_join_markdown_pages(<<join_output[1]>>))
    /\ UNCHANGED <<join_input, join_output, join_again, autoscan_vars, orch_vars, direct_vars>>

NextJoin ==
    \/ JoinCall
    \/ JoinCallAgain
    \/ JoinCallOnOwnOutput

SpecJoin == InitJoin /\ [][NextJoin]_vars

(***************************************************************************)
(* ImageToMarkdownProcessor.acompletion called on its own                  *)
(* (llm_processors/img_to_md_processor.py)                                 *)
(***************************************************************************)
MaxContextLen == 2

ContextTokens == {"a", "|", " "}

\* a part of a message's content; the url of an image part is kept in text
ContentPart(type, text) == [type |-> type, text |-> text]

\* image_to_base64(image_path) inside the data url of lines 49-51
image_url(image_path) == <<"data:image/png;base64,", "<base64 of ", image_path, ">">>

\* the f-string of lines 66-69 up to the context
context_intro ==
    <<"Here is the previous page markdown for continuity context. ...",
      "\n<!-- PAGE SEPARATOR -->\n">>

\* line 55 without the processor's flag
adds_context_ignoring_flag(flag, previous_page_markdown) ==
    previous_page_markdown # None /\ previous_page_markdown[1] # <<>>

\* line 55: "if self.pass_previous_page_context and previous_page_markdown"
adds_context(flag, previous_page_markdown) ==
    flag /\ previous_page_markdown # None /\ previous_page_markdown[1] # <<>>

\* lines 46-76
user_content(self, image_path, previous_page_markdown) ==
    << ContentPart("text", <<"Convert the following image to markdown.">>),
       ContentPart("image_url", image_url(image_path)) >>
    \o (IF adds_context(self.pass_previous_page_context, previous_page_markdown)
        THEN <<ContentPart("text", context_intro \o previous_page_markdown[1])>>
        ELSE <<>>)
    \o (IF self.user_prompt # <<>>
        THEN <<ContentPart("text", self.user_prompt)>> ELSE <<>>)

\* lines 78-82; the system prompt, a string in the code, is one text part here
build_messages(self, image_path, previous_page_markdown) ==
    << [role |-> "system", content |-> <<ContentPart("text", <<"<system prompt>">>)>>],
       [role |-> "user",
        content |-> user_content(self, image_path, previous_page_markdown)] >>

\* the texts of at most n tokens
Texts(tokens, n) == UNION {[1..k -> tokens] : k \in 0..n}

\* a processor and the keyword arguments of one call of its acompletion
InitTranscriber ==
    /\ pc = "direct"
    /\ pdf_path = <<>> /\ output_dir = None
    /\ accuracy = "low" /\ polish_output = FALSE /\ temp_dir = FALSE
    /\ AutoscanIdle
    /\ opc = "idle"
    /\ pdf_page_images = <<>>
    /\ concurrency = 0 /\ concurrency_arg = 0
    /\ sequential = FALSE
    /\ OrchIdle
    /\ JoinIdle
    /\ proc_self \in [pass_previous_page_context : BOOLEAN,
                      user_prompt : {<<>>, <<"Use GitHub tables.">>}]
    /\ proc_kwargs \in [image_path : {None} \cup {Some(p) : p \in Images},
                        previous_page_markdown :
                            {None} \cup {Some(t) : t \in Texts(ContextTokens, MaxContextLen)}]
    /\ proc_messages = None /\ proc_result = None
    /\ cons_self = None /\ cons_kwargs = None /\ cons_llm_ok = FALSE
    /\ cons_messages = None /\ cons_result = None
    /\ gdf_args = None /\ gdf_env = None /\ gdf_result = None

\* lines 28-89: the call raises before any message is built when there is no image
\* path or the image cannot be encoded, and hands its messages to _allm_call otherwise
TranscriberCall ==
    /\ proc_result = None
    /\ LET image_path == proc_kwargs.image_path
           previous_page_markdown == proc_kwargs.previous_page_markdown
       IN  IF image_path = None
           THEN /\ proc_result' = Some(Exception("ValueError",
                      <<"image_path must be provided for Image-to-Markdown conversion">>, ""))
                /\ UNCHANGED proc_messages
           ELSE LET r == acompletion(image_path[1])
                IN  /\ proc_result' = Some(r)
                    /\ IF r.type = "ValueError" THEN UNCHANGED proc_messages
                       ELSE proc_messages' =
                              Some(build_messages(proc_self, image_path[1],
                                                  previous_page_markdown))
    /\ UNCHANGED <<proc_self, proc_kwargs, cons_vars, gdf_vars, join_vars,
                   autoscan_vars, orch_vars>>

NextTranscriber == TranscriberCall

SpecTranscriber == InitTranscriber /\ [][NextTranscriber]_vars

(***************************************************************************)
(* get_or_download_file called on its own (common.py)                      *)
(***************************************************************************)
\* the file paths and URLs the function is called with, in pieces
FilePaths ==
    { <<"http", "://", "example.com", "/", "file.pdf">>,
      <<"HTTP", "://", "example.com", "/", "dir", "/">>,
      <<"https", "://", "example.com", "/">>,
      <<"ftp", "://", "example.com", "/", "file.pdf">>,
      <<"/p", "/", "doc", ".pdf">>,
      <<"scan">> }

DestinationDirs == { <<"/tmp/autoscan">>, <<"dl">> }

\* what the call meets: whether Path(file_path).resolve() exists, the status the
\* server answers with, and the step that raises ("" when none does)
Environments ==
    [exists : BOOLEAN, status : {200, 404, 500},
     raises : {"", "mkdir", "get", "write", "resolve"}]

\* str.lower() of a scheme
lower(piece) == IF piece = "HTTP" THEN "http" ELSE piece

\* urlparse(file_path).scheme: the lower-cased letters before "://", "" without one
urlparse_scheme(file_path) ==
    IF Len(file_path) >= 2 /\ file_path[2] = "://" THEN lower(file_path[1]) ELSE ""

\* urlparse(file_path).path of a URL: what follows the host
urlparse_path(file_path) == SubSeq(file_path, 4, Len(file_path))

RECURSIVE path_name(_)
\* Path(path).name: the last component, trailing separators not counting
path_name(path) ==
    IF path = <<>> THEN <<>>
    ELSE IF path[Len(path)] = "/" THEN path_name(SubSeq(path, 1, Len(path) - 1))
    ELSE basename(path)

\* line 29
download_filename(file_path) ==
    IF path_name(urlparse_path(file_path)) = <<>> THEN <<"downloaded_file">>
    ELSE path_name(urlparse_path(file_path))

\* line 49, Path(file_path).resolve(): absolute, with "//" collapsed
resolve(file_path) ==
    LET collapsed == [k \in 1..Len(file_path) |->
                        IF file_path[k] = "://" THEN ":/" ELSE file_path[k]]
    IN  IF file_path[1] = "/p" THEN collapsed ELSE <<"<cwd>", "/">> \o collapsed

\* what a call returned or raised, and what it logged as an error
Returned(value, logged) == [kind |-> "return", value |-> value, logged |-> logged]

\* lines 56-58 as a bare raise
caught_reraised(e) == [kind |-> "raise", value |-> None, logged |-> "exception"]

\* lines 56-58: "except Exception", logged, None returned
caught(e) == Returned(None, "exception")

\* lines 23-58
get_or_download_file(file_path, destination_dir, env) ==
    IF urlparse_scheme(file_path) \in {"http", "https"}
    THEN IF env.raises \in {"mkdir", "get"} THEN caught(env.raises)
         ELSE IF env.status # 200 THEN Returned(None, "status")
         ELSE IF env.raises = "write" THEN caught(env.raises)
         ELSE Returned(Some(destination_dir \o <<"/">> \o download_filename(file_path)), "")
    ELSE IF env.raises = "resolve" THEN caught(env.raises)
         ELSE IF ~env.exists THEN Returned(None, "not found")
         ELSE Returned(Some(resolve(file_path)), "")

\* a call get_or_download_file(file_path, destination_dir)
InitResolve ==
    /\ pc = "direct"
    /\ pdf_path = <<>> /\ output_dir = None
    /\ accuracy = "low" /\ polish_output = FALSE /\ temp_dir = FALSE
    /\ AutoscanIdle
    /\ opc = "idle"
    /\ pdf_page_images = <<>>
    /\ concurrency = 0 /\ concurrency_arg = 0
    /\ sequential = FALSE
    /\ OrchIdle
    /\ JoinIdle
    /\ proc_self = None /\ proc_kwargs = None
    /\ proc_messages = None /\ proc_result = None
    /\ cons_self = None /\ cons_kwargs = None /\ cons_llm_ok = FALSE
    /\ cons_messages = None /\ cons_result = None
    /\ gdf_args \in [file_path : FilePaths, destination_dir : DestinationDirs]
    /\ gdf_env \in Environments
    /\ gdf_result = None

\* lines 10-58
ResolveCall ==
    /\ gdf_result = None
    /\ gdf_result' = Some(get_or_download_file(gdf_args.file_path,
                                               gdf_args.destination_dir, gdf_env))
    /\ UNCHANGED <<gdf_args, gdf_env, proc_vars, cons_vars, join_vars,
                   autoscan_vars, orch_vars>>

NextResolve == ResolveCall

SpecResolve == InitResolve /\ [][NextResolve]_vars

(***************************************************************************)
(* MarkdownConsolidator.acompletion called on its own                      *)
(* (llm_processors/markdown_consolidator.py)                               *)
(***************************************************************************)
MaxContentLen == 3

ContentTokens == {"a", " ", "\n"}

\* lines 61-71: the messages built for a document that is not blank
consolidator_messages(self, content) ==
    << [role |-> "system", content |-> <<"<system prompt>">>],
       [role |-> "user",
        content |-> <<"Please consolidate, clean up, and reorganize ...:\n\n">>
                      \o content] >>
    \o (IF self.user_prompt # <<>>
        THEN <<[role |-> "user",
                content |-> <<"Additional instructions: ">> \o self.user_prompt]>>
        ELSE <<>>)

\* a consolidator and the keyword arguments of one call of its acompletion;
\* markdown_content is None when the keyword is not given (line 49)
InitConsolidator ==
    /\ pc = "direct"
    /\ pdf_path = <<>> /\ output_dir = None
    /\ accuracy = "low" /\ polish_output = FALSE /\ temp_dir = FALSE
    /\ AutoscanIdle
    /\ opc = "idle"
    /\ pdf_page_images = <<>>
    /\ concurrency = 0 /\ concurrency_arg = 0
    /\ sequential = FALSE
    /\ OrchIdle
    /\ JoinIdle
    /\ proc_self = None /\ proc_kwargs = None
    /\ proc_messages = None /\ proc_result = None
    /\ cons_self \in [user_prompt : {<<>>, <<"Make it professional">>}]
    /\ cons_kwargs \in [markdown_content :
                          {None} \cup {Some(t) : t \in Texts(ContentTokens, MaxContentLen)}]
    /\ cons_llm_ok \in BOOLEAN
    /\ cons_messages = None /\ cons_result = None
    /\ gdf_args = None /\ gdf_env = None /\ gdf_result = None

\* lines 33-78: messages are handed to _allm_call only for a document that is
\* given and not blank
ConsolidatorCall ==
    /\ cons_result = None
    /\ LET given == cons_kwargs.markdown_content
       IN  IF given = None
           THEN /\ cons_result' = Some(Exception("ValueError",
                      <<"markdown_content must be provided for output polishing">>, ""))
                /\ UNCHANGED cons_messages
           ELSE /\ cons_result' =
                      Some(consolidator_acompletion(given[1], cons_llm_ok))
                /\ IF strip(given[1]) = <<>> THEN UNCHANGED cons_messages
                   ELSE cons_messages' =
                          Some(consolidator_messages(cons_self, given[1]))
    /\ UNCHANGED <<cons_self, cons_kwargs, cons_llm_ok, proc_vars, gdf_vars, join_vars,
                   autoscan_vars, orch_vars>>

NextConsolidator == ConsolidatorCall

SpecConsolidator == InitConsolidator /\ [][NextConsolidator]_vars

(***************************************************************************)
(* Properties.                                                             *)
(***************************************************************************)
\* _process_images_async has created its per-page state
Entered == opc \in {"running", "returned", "raised"}

AllReturned == \A i \in PageNums : task[i] = "returned"

\* the content the Page Transcriber produces for each page, in page order
ContentByPage == [k \in PageNums |-> acompletion(pdf_page_images[k]).content]

\* C1: in concurrent mode, when the transcription call of some page raises, the
\* orchestrator raises and never returns normally with a content list that leaves
\* the failed page out.
C1_ConcurrentFailureIsFatal ==
    (~sequential /\ opc = "returned") => \A i \in PageNums : task[i] # "raised"

\* C2: in concurrent mode, when every call succeeds, the returned content list has
\* one entry per page and its k-th entry is the content produced for page k, whatever
\* the concurrency bound and the order in which the calls completed.
C2_ConcurrentOrder ==
    (~sequential /\ opc = "returned" /\ AllReturned) =>
        /\ Len(ret[1].aggregated_markdown) = NumPages
        /\ ret[1].aggregated_markdown = ContentByPage

\* the last page completed first, and it differs from the first page
C2_Witness ==
    /\ ~sequential /\ opc = "returned" /\ AllReturned
    /\ NumPages >= 3
    /\ concurrency \in 2..NumPages
    /\ completion_order[1] = NumPages
    /\ ContentByPage[1] # ContentByPage[NumPages]

\* C3: in concurrent mode the number of transcription calls that have been started
\* and have neither returned nor raised never exceeds the concurrency bound.
C3_BoundedInFlight ==
    (~sequential /\ Entered) =>
        /\ Cardinality(InFlight) <= concurrency
        /\ context + Cardinality(InFlight) = concurrency

\* the bound is reached while another page is still waiting for a slot
C3_Witness ==
    /\ ~sequential /\ opc = "running"
    /\ concurrency >= 1
    /\ Cardinality(InFlight) = concurrency
    /\ \E i \in PageNums : task[i] = "pending"

\* C4: in sequential mode the call of page 1 gets previous_page_markdown = None and
\* the call of page i > 1 gets exactly the content returned for page i-1.
C4_ContextChaining ==
    (sequential /\ Entered) =>
        \A i \in PageNums : \A k \in 1..Len(calls[i]) :
            IF i = 1
            THEN calls[i][k].previous_page_markdown = None
            ELSE /\ task[i - 1] = "returned"
                 /\ calls[i][k].previous_page_markdown = Some(results[i - 1].content)

\* page 3 has been called after two pages with different contents
C4_Witness ==
    /\ sequential /\ Entered
    /\ NumPages >= 3
    /\ Len(calls[3]) = 1
    /\ results[1].content # results[2].content

\* C5: in concurrent mode every transcription call, for every page and in every
\* interleaving, gets previous_page_markdown = None.
C5_ContextIsolation ==
    (~sequential /\ Entered) =>
        \A i \in PageNums : \A k \in 1..Len(calls[i]) :
            calls[i][k].previous_page_markdown = None

\* every page of a run of several pages has been called, and an earlier one has
\* already returned content
C5_Witness ==
    /\ ~sequential /\ Entered
    /\ NumPages >= 2
    /\ \A i \in PageNums : Len(calls[i]) = 1
    /\ task[1] = "returned" /\ results[1].content # <<>>

\* C6: in sequential mode the call of a page is started only when the calls of all
\* earlier pages have returned, so calls start in page order and at most one is in
\* flight, whatever concurrency bound was supplied.
C6_SequentialOneAtATime ==
    (sequential /\ Entered) =>
        /\ Cardinality(InFlight) <= 1
        /\ \A j \in PageNums :
              task[j] # "pending" => \A i \in 1..(j - 1) : task[i] = "returned"

\* page 2 is in flight although the semaphore would admit more calls
C6_Witness ==
    /\ sequential /\ opc = "running"
    /\ NumPages >= 3
    /\ concurrency >= 2
    /\ task[2] = "running"

\* C7: with an accuracy outside {low, high}, autoscan raises ValueError before the
\* page renderer has been invoked and before any transcription call is made.
C7_InvalidAccuracyBeforeRender ==
    accuracy \notin {"low", "high"} =>
        /\ renderer_calls = 0
        /\ opc = "idle"

\* C8: when polishing is requested, every page is transcribed and the Polisher call
\* raises, the run is not failed by it (only a failing file write can still fail the
\* run) and the text returned and the text written are the text joined before the
\* polish step.
C8_PolishDegradation ==
    polisher_raised =>
        /\ polish_output
        /\ markdown_content = joined_markdown[1]
        /\ error \in {"", "OSError"}
        /\ written \in {<<>>, <<joined_markdown[1]>>}
        /\ pc = "failed" => (error = "OSError" /\ written = <<>>)
        /\ pc = "done" => /\ output # None
                          /\ output[1].markdown = joined_markdown[1]
                          /\ written = <<joined_markdown[1]>>

\* a two-page run whose Polisher raised has returned its document
C8_Witness ==
    /\ polisher_raised
    /\ pc = "done"
    /\ NumPages = 2 /\ AllReturned
    /\ output[1].markdown # <<>>

RECURSIVE SumOverPages(_, _)
\* the sum of a field over the results of pages 1..n
SumOverPages(n, field) ==
    IF n = 0 THEN 0
    ELSE (IF task[n] = "returned" THEN results[n][field] ELSE 0)
         + SumOverPages(n - 1, field)

\* C9: in either mode the totals the orchestrator returns are the sums of
\* prompt_tokens, completion_tokens and cost over the results of the pages.
C9_Aggregation ==
    opc = "returned" =>
        /\ ret[1].total_prompt_tokens = SumOverPages(NumPages, "prompt_tokens")
        /\ ret[1].total_completion_tokens = SumOverPages(NumPages, "completion_tokens")
        /\ ret[1].total_cost = SumOverPages(NumPages, "cost")

\* a run of three pages with three results has returned
C9_Witness ==
    /\ opc = "returned"
    /\ NumPages >= 3 /\ AllReturned
    /\ ret[1].total_prompt_tokens > results[1].prompt_tokens

RECURSIVE SumOverInputs(_, _)
\* the sum of a field over what the Page Transcriber produces for a list of images
SumOverInputs(imgs, field) ==
    IF imgs = <<>> THEN 0
    ELSE acompletion(Head(imgs))[field] + SumOverInputs(Tail(imgs), field)

\* the result that the per-page results alone determine
Expected ==
    [aggregated_markdown |-> ContentByPage,
     total_prompt_tokens |-> SumOverInputs(pdf_page_images, "prompt_tokens"),
     total_completion_tokens |-> SumOverInputs(pdf_page_images, "completion_tokens"),
     total_cost |-> SumOverInputs(pdf_page_images, "cost")]

EveryPageHasResult == \A i \in PageNums : ~IsException(acompletion(pdf_page_images[i]))

\* C10: for fixed per-page results the orchestrator's content list and totals are a
\* function of those results alone: the same in sequential mode and in concurrent
\* mode, under every completion order and every concurrency bound.
C10_SchedulingIndependence ==
    EveryPageHasResult =>
        /\ opc # "raised"
        /\ opc = "returned" => ret[1] = Expected

\* a sequential run and nothing else: its counterpart is the witness of C2
C10_Witness ==
    /\ sequential /\ opc = "returned"
    /\ EveryPageHasResult
    /\ NumPages >= 3
    /\ ContentByPage[1] # ContentByPage[NumPages]

(***************************************************************************)
(* Properties of _join_markdown_pages.                                     *)
(***************************************************************************)
Joined == join_output # None

JoinOutput == join_output[1]

\* a page with every page-break marker and its trailing whitespace removed
CleanPage(p) == rstrip(replace_with_empty(p, PAGE_BREAK))

IsKept(p) == CleanPage(p) # <<>>

\* the cleaned pages that are not empty, in input order
KeptCleanPages(ps) ==
    LET kept == SelectSeq(ps, IsKept)
    IN  [k \in 1..Len(kept) |-> CleanPage(kept[k])]

\* the separator rule as stated: "\n" for a table continuation, "\n\n" otherwise
StatedSeparator(prev, next) ==
    IF prev[Len(prev)] = "|" /\ next[1] = "|" THEN <<"\n">> ELSE <<"\n", "\n">>

RECURSIVE StatedJoin(_)
\* non-empty pages put together front to back under the stated separator rule
StatedJoin(ps) ==
    IF ps = <<>> THEN <<>>
    ELSE IF Len(ps) = 1 THEN ps[1]
    ELSE ps[1] \o StatedSeparator(ps[1], ps[2]) \o StatedJoin(Tail(ps))

\* C11: between two adjacent kept pages the separator is a single newline exactly
\* when the previous cleaned page ends with "|" and the next begins with "|", and
\* a double newline otherwise; ["a|", "|a"] gives "a|\n|a", ["a", "a"] gives "a\n\na".
C11_SeparatorRule ==
    Joined =>
        /\ JoinOutput = StatedJoin(KeptCleanPages(join_input))
        /\ join_input = << <<"a", "|">>, <<"|", "a">> >>
              => JoinOutput = <<"a", "|", "\n", "|", "a">>
        /\ join_input = << <<"a">>, <<"a">> >>
              => JoinOutput = <<"a", "\n", "\n", "a">>

\* a table continues over the first page boundary and not over the second
C11_Witness ==
    /\ Joined
    /\ join_input = << <<"|">>, <<"|">>, <<"a">> >>
    /\ JoinOutput = <<"|", "\n", "|", "\n", "\n", "a">>

\* sub occurs in s
Contains(s, sub) ==
    \E i \in 1..(Len(s) - Len(sub) + 1) : SubSeq(s, i, i + Len(sub) - 1) = sub

RECURSIVE IsMarkerRun(_)
\* s is one page-break marker after another, at least one
IsMarkerRun(s) ==
    /\ Len(s) >= Len(PAGE_BREAK)
    /\ SubSeq(s, 1, Len(PAGE_BREAK)) = PAGE_BREAK
    /\ \/ Len(s) = Len(PAGE_BREAK)
       \/ IsMarkerRun(SubSeq(s, Len(PAGE_BREAK) + 1, Len(s)))

\* p holds markers enclosed by the two halves of another marker
HasNestedMarker(p) ==
    \E i, j \in 1..Len(p) :
        /\ i < j
        /\ p[i] = PAGE_BREAK[1]
        /\ p[j] = PAGE_BREAK[2]
        /\ IsMarkerRun(SubSeq(p, i + 1, j - 1))

RECURSIVE TextUpToNewline(_)
TextUpToNewline(s) ==
    IF s = <<>> \/ Head(s) = "\n" THEN <<>>
    ELSE <<Head(s)>> \o TextUpToNewline(Tail(s))

RECURSIVE Segments(_)
\* the pieces of s between its runs of newlines (pages of SpecJoin hold no newline)
Segments(s) ==
    IF s = <<>> THEN <<>>
    ELSE IF Head(s) = "\n" THEN Segments(Tail(s))
    ELSE LET seg == TextUpToNewline(s)
         IN  <<seg>> \o Segments(SubSeq(s, Len(seg) + 1, Len(s)))

\* the output is the kept pages, cleaned, with separators only between them
OnlyKeptPagesContribute ==
    /\ Segments(JoinOutput) = KeptCleanPages(join_input)
    /\ \A k \in 1..Len(Segments(JoinOutput)) :
          LET seg == Segments(JoinOutput)[k]
          IN  seg # <<>> /\ ~IsSpace(seg[Len(seg)])
    /\ JoinOutput # <<>> =>
          /\ JoinOutput[1] # "\n"
          /\ ~IsSpace(JoinOutput[Len(JoinOutput)])
    /\ ~Contains(JoinOutput, <<"\n", "\n", "\n">>)
    /\ (\A k \in 1..Len(join_input) : ~IsKept(join_input[k])) => JoinOutput = <<>>

C13_ZeroAndOnePage ==
    Joined =>
        /\ Len(join_input) = 0 => JoinOutput = <<>>
        /\ Len(join_input) = 1 =>
              /\ JoinOutput = CleanPage(join_input[1])
              /\ ~Contains(JoinOutput, <<"\n">>)
              /\ ~Contains(join_input[1], PAGE_BREAK) => JoinOutput = rstrip(join_input[1])

\* one page that needs both cleanups and keeps its text
C13_Witness ==
    /\ Joined
    /\ join_input = << <<" ", "a", "---PAGE", " BREAK---", " ">> >>
    /\ JoinOutput = <<" ", "a">>

RECURSIVE PlainJoin(_)
\* page1 + "\n\n" + page2 + ...
PlainJoin(ps) ==
    IF ps = <<>> THEN <<>>
    ELSE IF Len(ps) = 1 THEN ps[1]
    ELSE ps[1] \o <<"\n", "\n">> \o PlainJoin(Tail(ps))

\* no page is empty and no page starts or ends with "|"
NoEmptyNoTableEdge(ps) ==
    \A k \in 1..Len(ps) :
        /\ ps[k] # <<>>
        /\ ps[k][1] # "|"
        /\ ps[k][Len(ps[k])] # "|"

\* no page holds the page-break marker or ends with whitespace
AlreadyClean(ps) ==
    \A k \in 1..Len(ps) :
        /\ ~Contains(ps[k], PAGE_BREAK)
        /\ ps[k] # <<>> => ~IsSpace(ps[k][Len(ps[k])])

\* C14 as stated: when no page is empty and no page starts or ends with "|", the
\* output is the pages in input order with "\n\n" between them, contents unchanged.
C14_PlainJoinOfAnyPages ==
    (Joined /\ NoEmptyNoTableEdge(join_input)) => JoinOutput = PlainJoin(join_input)

\* C14, amended: when moreover no page holds the page-break marker or ends with
\* whitespace, the output is the pages in input order with "\n\n" between them,
\* contents unchanged.
C14_PlainJoinOfCleanPages ==
    (Joined /\ NoEmptyNoTableEdge(join_input) /\ AlreadyClean(join_input))
        => JoinOutput = PlainJoin(join_input)

\* two clean pages, one with leading whitespace and one with half a marker
C14_Witness ==
    /\ Joined
    /\ join_input = << <<" ", "a">>, <<"---PAGE", "a">> >>
    /\ JoinOutput = <<" ", "a", "\n", "\n", "---PAGE", "a">>

(***************************************************************************)
(* Properties of the failure policy of _process_images_async.              *)
(***************************************************************************)
\* piece is one of the pieces of the message of exception e
MessageHolds(e, piece) == \E k \in 1..Len(e.message) : e.message[k] = piece

\* C15: the error surfaced when a page's transcription fails names the failing
\* page by its 1-based page index and by its image path.
C15_ErrorNamesIndexAndPath ==
    opc = "raised" =>
        \A i \in PageNums :
            task[i] = "raised" =>
                /\ MessageHolds(orch_error, pdf_page_images[i])
                /\ MessageHolds(orch_error, ToString(i))

\* C16: a page whose transcription call returns empty content is fatal to the
\* run: the orchestrator never returns when some page's call returned empty content.
C16_EmptyContentIsFatal ==
    opc = "returned" =>
        \A i \in PageNums : ~(task[i] = "returned" /\ results[i].content = <<>>)

(***************************************************************************)
(* Properties of the concurrency bound and of the empty page list.         *)
(***************************************************************************)
\* C17: when the concurrency argument is None or 0 the bound is the number of
\* pages, so in concurrent mode a page call never has to wait for another one
\* to finish and all the page calls can be in flight together.
C17_DefaultBoundIsPageCount ==
    (Entered /\ concurrency_arg = 0) =>
        /\ concurrency = NumPages
        /\ context = NumPages - Cardinality(InFlight)
        /\ (~sequential /\ opc = "running") =>
              \A i \in PageNums : task[i] = "pending" => (~semaphore_locked /\ ENABLED ConcCall(i))

\* no bound was given and every page call of a three-page list is in flight
C17_Witness ==
    /\ Entered
    /\ concurrency_arg = 0
    /\ ~sequential
    /\ NumPages = MaxPages
    /\ InFlight = PageNums

\* C18: for an empty page list, in either mode and for any concurrency argument,
\* the orchestrator returns an empty content list with all totals zero, makes no
\* transcription call and raises no error.
C18_EmptyPageList ==
    NumPages = 0 =>
        /\ opc # "raised"
        /\ opc = "called" => ENABLED ProcessImagesEntry
        /\ opc = "running" => ENABLED (SeqFinish \/ ConcFinish)
        /\ Entered => (calls = <<>> /\ completion_order = <<>>)
        /\ opc = "returned" =>
              ret = Some([aggregated_markdown |-> <<>>, total_prompt_tokens |-> 0,
                          total_completion_tokens |-> 0, total_cost |-> 0])

\* the empty page list has been processed in concurrent mode without a bound
C18_Witness ==
    /\ NumPages = 0
    /\ concurrency_arg = 0
    /\ ~sequential
    /\ opc = "returned"
    /\ ret # None

(***************************************************************************)
(* Properties of the polish step and of input resolution in autoscan.      *)
(***************************************************************************)
\* the Polisher was called and its call returned
PolisherSucceeded == polisher_calls # <<>> /\ ~polisher_raised

\* what the Polisher returns for the joined text
PolisherResult == consolidator_acompletion(joined_markdown[1], TRUE)

\* C19: when polishing is requested and the Polisher call succeeds, the Polisher is
\* called exactly once with the full joined text, the text returned and written is
\* the Polisher's content, and the run totals are the sums over the page results
\* plus the Polisher's prompt tokens, completion tokens and cost.
C19_PolishReplacesAndFoldsUsage ==
    PolisherSucceeded =>
        /\ polish_output
        /\ polisher_calls = <<joined_markdown[1]>>
        /\ joined_markdown[1] = _join_markdown_pages(ret[1].aggregated_markdown)
        /\ markdown_content = PolisherResult.content
        /\ totals.prompt_tokens =
              SumOverPages(NumPages, "prompt_tokens") + PolisherResult.prompt_tokens
        /\ totals.completion_tokens =
              SumOverPages(NumPages, "completion_tokens") + PolisherResult.completion_tokens
        /\ totals.cost = SumOverPages(NumPages, "cost") + PolisherResult.cost
        /\ written \in {<<>>, <<PolisherResult.content>>}
        /\ output # None =>
              /\ written = <<PolisherResult.content>>
              /\ output[1].markdown = PolisherResult.content
              /\ output[1].input_tokens = totals.prompt_tokens
              /\ output[1].output_tokens = totals.completion_tokens
              /\ output[1].cost = totals.cost

\* a two-page run whose Polisher call succeeded has returned the polished document
C19_Witness ==
    /\ PolisherSucceeded
    /\ pc = "done"
    /\ NumPages = 2 /\ AllReturned
    /\ output[1].markdown # joined_markdown[1]
    /\ output[1].cost > SumOverPages(NumPages, "cost")

\* C20: when the PDF reference cannot be resolved to a local file, autoscan raises
\* PDFFileNotFoundError and in that run the renderer is never invoked, no
\* transcription call is made and no output file is written.
C20_UnresolvedInputIsFatal ==
    (pc \notin {"start", "resolve"} /\ local_path = None) =>
        /\ error = "PDFFileNotFoundError"
        /\ pc \in {"finally", "failed"}
        /\ renderer_calls = 0
        /\ opc = "idle" /\ calls = <<>>
        /\ polisher_calls = <<>>
        /\ written = <<>>
        /\ output = None

\* the run of an unresolvable reference has ended with the error raised
C20_Witness ==
    /\ pc = "failed"
    /\ local_path = None
    /\ error = "PDFFileNotFoundError"

(***************************************************************************)
(* Properties of the failure kinds and of the clean-up of autoscan.        *)
(***************************************************************************)
\* pdf_to_images was invoked and yielded None or an empty list
RenderedNothing == renderer_calls > 0 /\ (images = None \/ images = Some(<<>>))

\* C21: when the renderer yields no page images (None or an empty list), autoscan
\* raises PDFPageToImageConversionError and in that run no transcription call is
\* made and no output file is written.
C21_NoImagesIsFatal ==
    RenderedNothing =>
        /\ error = "PDFPageToImageConversionError"
        /\ pc \in {"finally", "failed"}
        /\ opc = "idle" /\ calls = <<>>
        /\ polisher_calls = <<>>
        /\ written = <<>>
        /\ output = None

\* the run of a PDF rendered to an empty list has ended with the error raised
C21_Witness ==
    /\ pc = "failed"
    /\ renderer_calls = 1
    /\ images = Some(<<>>)
    /\ error = "PDFPageToImageConversionError"

\* autoscan has ended, by return or by raise, after pdf_to_images yielded page images
EndedAfterRendering ==
    /\ pc \in {"done", "failed"}
    /\ renderer_calls > 0
    /\ ~RenderedNothing

\* C22: however autoscan ends after rendering, the rendered page images are deleted
\* exactly when the run created its own temporary directory; with a temp_dir of the
\* caller the run deletes no image and does not remove the directory.
C22_CleanupOnlyOwnedImages ==
    /\ EndedAfterRendering =>
          /\ images_deleted <=> ~temp_dir
          /\ temp_dir_removed <=> ~temp_dir
    /\ temp_dir => (~images_deleted /\ ~temp_dir_removed /\ ~temp_dir_obj)

\* a run in its own temporary directory has failed after rendering and cleaned up
C22_Witness ==
    /\ EndedAfterRendering
    /\ pc = "failed"
    /\ error = "LLMProcessingError"
    /\ ~temp_dir
    /\ images_deleted /\ temp_dir_removed

\* the run got as far as the write of the document and ended without writing it
WriteFailed == pc = "failed" /\ joined_markdown # None /\ written = <<>>

\* C23: when the write of the assembled document fails, for whatever reason, the
\* run ends with MarkdownFileWriteError and returns no result.
C23_WriteFailureKind ==
    WriteFailed =>
        /\ error = "MarkdownFileWriteError"
        /\ output = None

(***************************************************************************)
(* Properties of the accuracy modes and of the result of autoscan.         *)
(***************************************************************************)
\* autoscan has called _process_images_async
Scheduled == pc \notin {"start", "resolve", "render", "check"} /\ opc # "idle"

\* the previous_page_markdown passed with the call of page i, once it is made
ContextOfCall(i) == calls[i][1].previous_page_markdown

\* C24: autoscan schedules the pages sequentially with chained context exactly when
\* accuracy is "high" and concurrently without context exactly when it is "low";
\* the transcriber has pass_previous_page_context = True exactly for "high", and
\* the returned result carries the accuracy argument.
C24_AccuracySelectsMode ==
    /\ Scheduled =>
          /\ accuracy \in {"low", "high"}
          /\ sequential <=> accuracy = "high"
          /\ ~sequential <=> accuracy = "low"
          /\ pass_previous_page_context <=> accuracy = "high"
          /\ Entered =>
                \A i \in PageNums :
                    calls[i] # <<>> =>
                        /\ accuracy = "low" => ContextOfCall(i) = None
                        /\ accuracy = "high" =>
                              /\ Cardinality(InFlight) <= 1
                              /\ \A j \in 1..(i - 1) : task[j] = "returned"
                              /\ ContextOfCall(i) =
                                    IF i = 1 THEN None ELSE Some(ContentByPage[i - 1])
    /\ output # None => output[1].accuracy = accuracy

\* a two-page run at high accuracy has returned; page 2 was called with page 1's text
C24_Witness ==
    /\ pc = "done"
    /\ accuracy = "high"
    /\ pass_previous_page_context
    /\ NumPages = 2 /\ AllReturned
    /\ ContextOfCall(2) = Some(ContentByPage[1])
    /\ ContentByPage[1] # <<>>
    /\ output[1].accuracy = "high"

\* the directory and the file name the document of this run belongs to
StatedOutputDir == IF output_dir = None THEN <<"<cwd>", "/", "output">> ELSE output_dir[1]

StatedFileName ==
    IF pdf_path = <<"/p", "/", "doc", ".pdf">> THEN <<"doc", ".md">> ELSE <<"scan", ".md">>

\* the usage of the Polisher call when it succeeded, nothing otherwise
PolishUsage(field) == IF PolisherSucceeded THEN PolisherResult[field] ELSE 0

\* C25: a successful run writes the final document exactly once, to
\* <output_dir>/<pdf_basename>.md; the text written is the document text of the
\* returned result, whose token and cost totals are the totals of the run.
C25_OneWriteOfTheReturnedText ==
    /\ Len(written) <= 1 /\ Len(written_to) = Len(written)
    /\ pc = "done" =>
          /\ output # None
          /\ Len(written) = 1
          /\ written_to[1] = StatedOutputDir \o <<"/">> \o StatedFileName
          /\ output[1].markdown_file = written_to[1]
          /\ output[1].markdown = written[1]
          /\ output[1].input_tokens =
                SumOverPages(NumPages, "prompt_tokens") + PolishUsage("prompt_tokens")
          /\ output[1].output_tokens =
                SumOverPages(NumPages, "completion_tokens") + PolishUsage("completion_tokens")
          /\ output[1].cost = SumOverPages(NumPages, "cost") + PolishUsage("cost")

\* a two-page run of /p/doc.pdf with output_dir /out has returned
C25_Witness ==
    /\ pc = "done"
    /\ pdf_path = <<"/p", "/", "doc", ".pdf">>
    /\ output_dir = Some(<<"/out">>)
    /\ NumPages = 2 /\ AllReturned
    /\ written_to = << <<"/out", "/", "doc", ".md">> >>
    /\ written = <<output[1].markdown>>
    /\ output[1].markdown # <<>>

(***************************************************************************)
(* Properties of page failures and of the page calls.                      *)
(***************************************************************************)
\* C26: in sequential mode, when the transcription call of page i raises, the
\* orchestrator raises LLMProcessingError, returns no partial result and makes no
\* transcription call for any page after i.
C26_SequentialFailureStops ==
    (Entered /\ sequential) =>
        \A i \in PageNums :
            task[i] = "raised" =>
                /\ opc = "raised"
                /\ orch_error.type = "LLMProcessingError"
                /\ orch_error = results[i]
                /\ ret = None
                /\ \A j \in PageNums : j > i => (calls[j] = <<>> /\ task[j] = "pending")
                /\ \A j \in PageNums : j < i => task[j] = "returned"
                /\ ~ENABLED NextOrch

\* the second of three pages failed in sequential mode
C26_Witness ==
    /\ sequential
    /\ NumPages = 3
    /\ task = <<"returned", "raised", "pending">>
    /\ opc = "raised"
    /\ calls[3] = <<>>

\* C27: in one orchestrator run the transcriber is called at most once per page,
\* whether the call succeeds or fails, and exactly once per page when every call
\* succeeds; the call for 0-based position p carries page_number = p + 1 and
\* image_path = pages[p], in both modes.
C27_OneCallPerPage ==
    Entered =>
        /\ \A i \in PageNums :
              /\ Len(calls[i]) <= 1
              /\ Len(calls[i]) = 1 <=> task[i] # "pending"
        /\ \A p \in 0..(NumPages - 1) :
              calls[p + 1] # <<>> =>
                  /\ calls[p + 1][1].page_number = p + 1
                  /\ calls[p + 1][1].image_path = pdf_page_images[p + 1]
        /\ (opc = "returned" /\ AllReturned) => \A i \in PageNums : Len(calls[i]) = 1
        /\ Len(completion_order) = Cardinality({i \in PageNums : Finished(i)})

\* three pages, one of them failing, have each been called once in concurrent mode
C27_Witness ==
    /\ ~sequential
    /\ opc = "returned"
    /\ NumPages = 3
    /\ \E i \in PageNums : task[i] = "raised"
    /\ \A i \in PageNums : Len(calls[i]) = 1
    /\ pdf_page_images[1] # pdf_page_images[3]

\* the last n pieces of the message of exception e
MessageTail(e, n) == SubSeq(e.message, Len(e.message) - n + 1, Len(e.message))

\* C28: whatever exception the transcription call of a page raises, a ValueError
\* for an image that cannot be encoded included, leaves process_single_image as
\* an LLMProcessingError whose cause is that exception; nothing else escapes.
C28_FailuresAreWrapped ==
    Entered =>
        /\ \A i \in PageNums :
              LET raised == acompletion(pdf_page_images[i])
              IN  /\ task[i] = "raised" <=> (Finished(i) /\ IsException(raised))
                  /\ task[i] = "raised" =>
                        /\ results[i].type = "LLMProcessingError"
                        /\ results[i].cause = raised.type
                        /\ MessageTail(results[i], Len(raised.message)) = raised.message
                  /\ task[i] = "returned" => results[i] = raised
        /\ opc = "raised" => orch_error.type = "LLMProcessingError"

\* the page of an image that cannot be encoded has failed
C28_Witness ==
    /\ Entered
    /\ \E i \in PageNums :
          /\ pdf_page_images[i] = "/p/unreadable.png"
          /\ task[i] = "raised"
          /\ results[i].type = "LLMProcessingError"
          /\ results[i].cause = "ValueError"

\* the pages whose transcription call raised
FailedPages == {i \in PageNums : task[i] = "raised"}

\* C29: in concurrent mode, when several pages fail, at least one of the failures
\* leaves the orchestrator as a raised error.
C29_SomeFailurePropagates ==
    (~sequential /\ opc \in {"returned", "raised"} /\ Cardinality(FailedPages) >= 2)
        => (opc = "raised" /\ \E i \in FailedPages : orch_error = results[i])

(***************************************************************************)
(* Termination of the concurrent branch.                                   *)
(***************************************************************************)
\* a concurrent run whose bound, once coerced, is at least 1
ConcurrentWithBound ==
    /\ ~sequential
    /\ (IF concurrency_arg = 0 THEN NumPages ELSE concurrency_arg) >= 1

\* the orchestrator has finished after the call of every page was made and completed
FinishedAfterEveryCall ==
    /\ opc = "returned"
    /\ \A i \in PageNums : Len(calls[i]) = 1 /\ Finished(i)

\* every slot taken is held by a call in flight, and the concurrent branch
\* finishes only when the call of every page has completed
SlotsAndFinish ==
    (Entered /\ ~sequential) =>
        /\ context = concurrency - Cardinality(InFlight)
        /\ opc = "returned" => \A i \in PageNums : Finished(i)
        /\ opc # "raised"

\* C30: in concurrent mode with a bound of at least 1, when every transcription
\* call comes back, the call of every page is eventually started and the
\* orchestrator eventually finishes, whichever pages fail: a call that raises
\* gives its slot back.  The orchestrator does not finish while a call is out.
C30_ConcurrentTermination ==
    /\ []SlotsAndFinish
    /\ ConcurrentWithBound ~> FinishedAfterEveryCall

\* two pages under bound 1, the first one failing, have both been processed
C30_Witness ==
    /\ ~sequential
    /\ concurrency_arg = 1
    /\ NumPages = 2
    /\ FinishedAfterEveryCall
    /\ task[1] = "raised"
    /\ completion_order = <<1, 2>>

(***************************************************************************)
(* Properties of the per-page results in concurrent mode.                  *)
(***************************************************************************)
RECURSIVE ContentsUpTo(_)
\* the contents of the pages 1..n whose call returned, in page order
ContentsUpTo(n) ==
    IF n = 0 THEN <<>>
    ELSE ContentsUpTo(n - 1)
         \o (IF task[n] = "returned" THEN <<results[n].content>> ELSE <<>>)

\* a step writes the result of page i only for the finishing task of page i, once,
\* and leaves the result of every other page alone
OwnSlotWrittenOnce ==
    (Entered /\ ~sequential) =>
        \A i \in PageNums :
            results'[i] # results[i] =>
                /\ task[i] = "running" /\ results[i] = None
                /\ task'[i] \in {"returned", "raised"}
                /\ results'[i] = single_image_outcome(i)
                /\ \A j \in PageNums \ {i} : results'[j] = results[j] /\ task'[j] = task[j]

\* the result is computed once every task has finished, from one result per page
TotalsAfterAllTasks ==
    (Entered /\ ~sequential) =>
        /\ \A i \in PageNums : results[i] # None <=> Finished(i)
        /\ (\E i \in PageNums : ~Finished(i)) => ret = None
        /\ ret # None =>
              /\ ret[1].aggregated_markdown = ContentsUpTo(NumPages)
              /\ ret[1].total_prompt_tokens = SumOverPages(NumPages, "prompt_tokens")
              /\ ret[1].total_completion_tokens = SumOverPages(NumPages, "completion_tokens")
              /\ ret[1].total_cost = SumOverPages(NumPages, "cost")

\* C31: in concurrent mode the result of each page is written exactly once, by the
\* task of that page only, and the totals are computed after every task has
\* finished, so no interleaving loses or double-counts a page.
C31_NoLostOrDoubledPage ==
    /\ []TotalsAfterAllTasks
    /\ [][OwnSlotWrittenOnce]_vars

\* three pages completed out of page order have been summed up
C31_Witness ==
    /\ ~sequential
    /\ opc = "returned"
    /\ NumPages = 3 /\ AllReturned
    /\ completion_order = <<3, 1, 2>>
    /\ ret[1].total_cost = results[1].cost + results[2].cost + results[3].cost

(***************************************************************************)
(* Properties of the order of the steps of autoscan.                       *)
(***************************************************************************)
\* the polish step of this run is behind it
PolishStepOver == joined_markdown # None /\ pc \notin {"join", "polish"}

\* the three totals are the sums over the page results
TotalsArePageSums ==
    /\ totals.prompt_tokens = SumOverPages(NumPages, "prompt_tokens")
    /\ totals.completion_tokens = SumOverPages(NumPages, "completion_tokens")
    /\ totals.cost = SumOverPages(NumPages, "cost")

\* C32: the Polisher is called at most once per run, only when polish_output is
\* true and the joined document is not blank, and only after every page call has
\* completed and the pages are joined; without polish_output or with a blank
\* joined document no call is made and document and totals stay as joined and summed.
C32_PolishOnlyWhenDue ==
    /\ Len(polisher_calls) <= 1
    /\ polisher_calls # <<>> =>
          /\ polish_output
          /\ opc = "returned" /\ \A i \in PageNums : Finished(i)
          /\ joined_markdown # None
          /\ strip(joined_markdown[1]) # <<>>
          /\ polisher_calls[1] = joined_markdown[1]
    /\ (PolishStepOver /\ (~polish_output \/ strip(joined_markdown[1]) = <<>>)) =>
          /\ polisher_calls = <<>>
          /\ markdown_content = joined_markdown[1]
          /\ TotalsArePageSums

\* a run asked to polish a document that joined to nothing has returned unpolished
C32_Witness ==
    /\ pc = "done"
    /\ polish_output
    /\ NumPages = 2
    /\ joined_markdown = Some(<<>>)
    /\ polisher_calls = <<>>
    /\ output[1].markdown = <<>>

\* C33: when the Polisher call raises, the total prompt tokens, completion tokens
\* and cost of the run are exactly the sums over the page results: the failed
\* polish step changes neither the totals nor the document text.
C33_FailedPolishChangesNothing ==
    polisher_raised =>
        /\ TotalsArePageSums
        /\ markdown_content = joined_markdown[1]
        /\ totals = [prompt_tokens |-> ret[1].total_prompt_tokens,
                     completion_tokens |-> ret[1].total_completion_tokens,
                     cost |-> ret[1].total_cost]
        /\ output # None =>
              /\ output[1].input_tokens = SumOverPages(NumPages, "prompt_tokens")
              /\ output[1].output_tokens = SumOverPages(NumPages, "completion_tokens")
              /\ output[1].cost = SumOverPages(NumPages, "cost")
              /\ output[1].markdown = joined_markdown[1]

\* a two-page run whose Polisher raised has returned the page sums as its totals
C33_Witness ==
    /\ polisher_raised
    /\ pc = "done"
    /\ NumPages = 2 /\ AllReturned
    /\ output[1].cost = results[1].cost + results[2].cost
    /\ output[1].cost > 0

\* the errors of input resolution, rendering, configuration and page transcription
ErrorsBeforeTheWrite ==
    {"PDFFileNotFoundError", "PDFPageToImageConversionError", "ValueError",
     "LLMProcessingError"}

\* C34: the output file is written only after every page call has completed, the
\* join has run and the polish step, if there is one, has finished or failed; a
\* run that ends with an input-resolution, rendering, configuration or
\* page-transcription error never writes the output file.
C34_WriteComesLast ==
    /\ written # <<>> =>
          /\ opc = "returned" /\ \A i \in PageNums : Finished(i)
          /\ joined_markdown # None
          /\ (polish_output /\ strip(joined_markdown[1]) # <<>>) => Len(polisher_calls) = 1
          /\ written = <<markdown_content>>
          /\ polisher_calls # <<>> =>
                markdown_content = (IF polisher_raised THEN joined_markdown[1]
                                    ELSE PolisherResult.content)
          /\ error = ""
    /\ error \in ErrorsBeforeTheWrite => (written = <<>> /\ written_to = <<>>)
    /\ pc \in {"start", "resolve", "render", "check", "processing", "join", "polish", "write"}
          => written = <<>>

\* the document of a two-page run was written after its polish step had failed
C34_Witness ==
    /\ written # <<>>
    /\ polisher_raised
    /\ NumPages = 2 /\ AllReturned
    /\ written = <<joined_markdown[1]>>
    /\ pc = "return"

\* pages i and j are kept and every page between them is dropped
AdjacentAfterDropping(ps, i, j) ==
    /\ i < j /\ IsKept(ps[i]) /\ IsKept(ps[j])
    /\ \A k \in (i + 1)..(j - 1) : ~IsKept(ps[k])

\* C35: the separator between two kept pages is decided from the cleaned kept
\* pages that end up adjacent, not from the original neighbours: the output is the
\* join of the pages up to the first, the separator of the two cleaned pages, and
\* the join of the pages from the second on; so pages dropped as empty between a
\* page ending in "|" and a page starting with "|" leave a single newline.
C35_SeparatorFromKeptNeighbours ==
    Joined =>
        \A i \in 1..Len(join_input) : \A j \in 1..Len(join_input) :
            AdjacentAfterDropping(join_input, i, j) =>
                /\ JoinOutput = StatedJoin(KeptCleanPages(SubSeq(join_input, 1, i)))
                                  \o StatedSeparator(CleanPage(join_input[i]),
                                                     CleanPage(join_input[j]))
                                  \o StatedJoin(KeptCleanPages(SubSeq(join_input, j, Len(join_input))))
                /\ (/\ CleanPage(join_input[i])[Len(CleanPage(join_input[i]))] = "|"
                    /\ CleanPage(join_input[j])[1] = "|")
                      => Contains(JoinOutput, <<"|", "\n", "|">>)

\* a blank page between two table pages was dropped and one newline joins them
C35_Witness ==
    /\ join_input = << <<"|">>, <<" ">>, <<"|">> >>
    /\ join_output = Some(<<"|", "\n", "|">>)

\* the calls of _join_markdown_pages return the same text for the same list and
\* leave the list as it was
JoinIsPure ==
    /\ [](join_again # None => join_again = join_output)
    /\ [][join_input' = join_input]_vars

MessageTexts ==
    UNION {{proc_messages[1][m].content[k].text :
                k \in 1..Len(proc_messages[1][m].content)} :
           m \in 1..Len(proc_messages[1])}

\* C37: the messages handed to the model include the previous page's markdown if
\* and only if the processor has pass_previous_page_context = True and a non-empty
\* previous_page_markdown was supplied; with the flag False a supplied
\* previous_page_markdown appears in no part of any message.
C37_ContextOnlyWithFlag ==
    proc_messages # None =>
        LET previous == proc_kwargs.previous_page_markdown
            supplied == previous # None /\ previous[1] # <<>>
            included == \E t \in MessageTexts :
                            previous # None /\ t = context_intro \o previous[1]
        IN  /\ included <=> (proc_self.pass_previous_page_context /\ supplied)
            /\ (~proc_self.pass_previous_page_context /\ supplied)
                  => \A t \in MessageTexts : ~Contains(t, previous[1])

\* a processor with the flag set was given the previous page "a|" and sent it
C37_Witness ==
    /\ proc_result = Some(acompletion("/p/b.png"))
    /\ proc_self.pass_previous_page_context
    /\ proc_self.user_prompt # <<>>
    /\ proc_kwargs.previous_page_markdown = Some(<<"a", "|">>)
    /\ Len(proc_messages[1][2].content) = 4
    /\ proc_messages[1][2].content[3].text = context_intro \o <<"a", "|">>

Resolved == gdf_result[1]

IsDownload == urlparse_scheme(gdf_args.file_path) \in {"http", "https"}

UnsupportedScheme == urlparse_scheme(gdf_args.file_path) \notin {"", "http", "https"}

\* the parts of C38 that hold of every call: nothing is raised; a download answered
\* with status 200 returns the path of the downloaded file and any other status
\* None; an internal exception gives None
NeverRaisesAndDownloads ==
    /\ Resolved.kind = "return"
    /\ (IsDownload /\ gdf_env.status = 200 /\ Resolved.logged # "exception")
          => Resolved.value = Some(gdf_args.destination_dir \o <<"/">>
                                     \o download_filename(gdf_args.file_path))
    /\ (IsDownload /\ gdf_env.status # 200) => Resolved.value = None
    /\ Resolved.logged = "exception" => Resolved.value = None
    /\ (~IsDownload /\ ~gdf_env.exists) => Resolved.value = None

IsBlank(text) == \A k \in 1..Len(text) : text[k] \in {" ", "\n"}

\* C39: MarkdownConsolidator.acompletion raises ValueError when markdown_content is
\* not supplied, and for blank markdown_content returns a result with empty
\* content, zero prompt tokens, zero completion tokens and zero cost; in neither
\* case is a model call made.
C39_MissingRaisesBlankIsFree ==
    cons_result # None =>
        LET given == cons_kwargs.markdown_content
        IN  /\ given = None =>
                  /\ cons_result[1].type = "ValueError"
                  /\ cons_result[1].message =
                        <<"markdown_content must be provided for output polishing">>
                  /\ cons_messages = None
            /\ (given # None /\ IsBlank(given[1])) =>
                  /\ cons_result[1].type = "ModelResult"
                  /\ cons_result[1].content = <<>>
                  /\ cons_result[1].prompt_tokens = 0
                  /\ cons_result[1].completion_tokens = 0
                  /\ cons_result[1].cost = 0
                  /\ cons_messages = None

\* a document of a space and a newline came back empty and free although the
\* model call would have failed
C39_Witness ==
    /\ cons_kwargs.markdown_content = Some(<<" ", "\n">>)
    /\ ~cons_llm_ok
    /\ cons_result = Some(ModelResult(<<>>, 0, 0, 0))
    /\ cons_messages = None

====
